---- MODULE Spec2Model ----
(***************************************************************************)
(* Model of the Coral Monitor Streamlit application (app.py) and of its    *)
(* inference pipeline (inference.py).                                      *)
(*                                                                         *)
(* The script is re-executed from top to bottom on every user interaction. *)
(* The state that survives a re-execution is st.session_state (files,      *)
(* outputs_overlay, outputs_gradcam) and the values of the widgets         *)
(* (checkbox, multiselect).  Every interaction is one action; the batch    *)
(* loop of the Run button is split into its iterations so that the order   *)
(* of adapter calls, store writes and progress updates is observable.      *)
(***************************************************************************)
EXTENDS Integers, Sequences, FiniteSets, TLC

\* ---------------------------------------------------------------- bounds
\* file names the user can upload in the main specification
Names == {"a", "b"}
\* fixed enumeration of file names; prefixes of it are used as name universes
NameOrder == <<"c", "a", "d", "b", "h", "e", "g", "f", "l", "i", "k", "j">>
\* number of distinct image contents
NumPix == 2
\* number of distinct images a replacement pipeline can return
NumOut == 1
\* cap on the length of st.session_state.files
MaxFiles == 2
\* cap on the number of options the user picks in the multiselect
MaxSel == 2
\* number of known names of the selection-only specification
MaxKnown == 10
\* all_names[: min(4, len(all_names))]
DefaultCount == 4

VARIABLES
    files,            \* st.session_state.files: sequence of [name, bytes]
    outputs_overlay,  \* st.session_state.outputs_overlay: dict name -> PNG bytes
    outputs_gradcam,  \* st.session_state.outputs_gradcam: dict name -> PNG bytes
    select_all,       \* value of the "Select all" checkbox
    selected_names,   \* value returned by st.multiselect in the latest execution
    explicit,         \* TRUE iff the multiselect holds a choice made by the user
    interaction,      \* the interaction that triggered the latest execution
    pc,               \* "idle", or "loop" while the batch loop is executing
    idx,              \* loop variable idx of the batch loop (1-based)
    events,           \* adapter calls, store writes and progress updates of the latest execution
    status,           \* how the run block of the latest execution ended
    error,            \* the exception that ended the latest execution, if any
    pipe,             \* the pipeline returned by get_pipeline(): "stub" (inference.py) or "external"
    shadowed,         \* history: the latest upload repeated a stored name with other bytes
    first_bytes,      \* history: name -> bytes of the first upload of that name
    latest            \* history: name -> artifact returned for it by the most recent adapter call

vars == <<files, outputs_overlay, outputs_gradcam, select_all, selected_names,
          explicit, interaction, pc, idx, events, status, error, pipe,
          shadowed, first_bytes, latest>>

\* ---------------------------------------------------------------- values
None == [kind |-> "None", data |-> 0]
KeyError == [kind |-> "KeyError", data |-> 0]

\* raw contents of an uploaded file
FileBytes == {[kind |-> "file", data |-> v] : v \in 1..NumPix}

\* uf.name / uf.read() of one entry of the uploader
UploadedFile == {[name |-> n, bytes |-> b] : n \in Names, b \in FileBytes}

\* Image.open(io.BytesIO(b)).convert("RGB")
OpenRGB(b) == [kind |-> "RGB", data |-> b.data]

\* img.save(buf, format="PNG"); buf.getvalue()
SavePng(img) == [kind |-> "PNG", data |-> img.data]

Min(a, b) == IF a <= b THEN a ELSE b

MinOf(S) == CHOOSE x \in S : \A y \in S : x <= y

\* dict.get(key): None when the key is absent
DictGet(d, k) == IF k \in DOMAIN d THEN d[k] ELSE None

\* d[key] = value
DictPut(d, k, v) == [x \in (DOMAIN d) \cup {k} |-> IF x = k THEN v ELSE d[x]]

EmptyDict == [x \in {} |-> None]

\* ---------------------------------------------------------------- helpers
MaxOf(S) == CHOOSE x \in S : \A y \in S : x >= y

\* variant: the last record of that name is returned instead of the first
GetOriginalPilLast(name) ==
    LET hits == {i \in 1..Len(files) : files[i].name = name}
    IN  IF hits = {} THEN KeyError ELSE OpenRGB(files[MaxOf(hits)].bytes)

GetOriginalPil(name) ==
    LET hits == {i \in 1..Len(files) : files[i].name = name}
    IN  IF hits = {} THEN KeyError ELSE OpenRGB(files[MinOf(hits)].bytes)

GetOverlayPil(name) ==
    LET b == DictGet(outputs_overlay, name)
    IN  IF b # None THEN OpenRGB(b) ELSE None

GetGradcamPil(name) ==
    LET b == DictGet(outputs_gradcam, name)
    IN  IF b # None THEN OpenRGB(b) ELSE None

\* ---------------------------------------------------------------- adapter
\* the results dictionary of CoralPipeline.run
Results == [label |-> "coral_bleached", exists |-> TRUE, coverage_pct |-> "42.3"]

\* CoralPipeline.run: overlay = img.copy(), two-element return
CoralPipelineRun(img) == <<img, Results>>

AdapterImages == {[kind |-> "RGB", data |-> v] : v \in 1..NumOut}

\* pipe.run(img): the stub pipeline of inference.py, or a replacement pipeline
\* that returns (overlay, results) or (overlay, results, gradcam), or raises
PipeRun(p, img) ==
    IF p = "stub"
    THEN {[raised |-> FALSE, ret |-> CoralPipelineRun(img)]}
    ELSE {[raised |-> FALSE, ret |-> <<o, Results>>] : o \in AdapterImages}
         \cup {[raised |-> FALSE, ret |-> <<o, Results, g>>] :
                   o \in AdapterImages, g \in AdapterImages \cup {None}}
         \cup {[raised |-> TRUE, ret |-> <<>>]}

\* ---------------------------------------------------------------- upload
RECURSIVE MergeLoop(_, _, _)
\* for uf in uploaded_files: if uf.name not in existing: files.append(...)
MergeLoop(fs, existing, ufs) ==
    IF ufs = <<>> THEN fs
    ELSE LET uf == Head(ufs)
         IN  IF uf.name \notin existing
             THEN MergeLoop(Append(fs, [name |-> uf.name, bytes |-> uf.bytes]),
                            existing, Tail(ufs))
             ELSE MergeLoop(fs, existing, Tail(ufs))

\* if uploaded_files: existing = {names}; merge loop
Merge(fs, ufs) ==
    IF ufs = <<>> THEN fs
    ELSE MergeLoop(fs, {fs[i].name : i \in 1..Len(fs)}, ufs)

\* ---------------------------------------------------------------- selection
AllNames(fs) == [i \in 1..Len(fs) |-> fs[i].name]

\* variant: the slice is one element short
DefaultShort(all_names, sa) ==
    IF sa THEN all_names
    ELSE SubSeq(all_names, 1, Min(DefaultCount - 1, Len(all_names)))

\* default = all_names if select_all else all_names[: min(4, len(all_names))]
Default(all_names, sa) ==
    IF sa THEN all_names
    ELSE SubSeq(all_names, 1, Min(DefaultCount, Len(all_names)))

\* variant: the widget is given a fixed list of options instead of all_names
MultiselectFixed(options, choice) == [i \in 1..Len(choice) |-> NameOrder[choice[i]]]

\* st.multiselect(options, default): the picked options, by position
Multiselect(options, choice) == [i \in 1..Len(choice) |-> options[choice[i]]]

\* the selection block of one execution with an untouched multiselect
SelectionBlock(fs, sa) ==
    IF AllNames(fs) = <<>> THEN <<>> ELSE Default(AllNames(fs), sa)

\* sequences of at most MaxSel distinct option positions
PickChoices(n) ==
    UNION {{c \in [1..k -> 1..n] : \A i, j \in 1..k : i # j => c[i] # c[j]} :
               k \in 0..Min(MaxSel, n)}

\* ---------------------------------------------------------------- events
Ev(kind, name, i, total) == [ev |-> kind, name |-> name, i |-> i, total |-> total]

NoError == [type |-> "none", name |-> "", index |-> 0]

\* the exception raised inside pipe.run leaves the script as it is
AdapterError == [type |-> "adapter", name |-> "", index |-> 0]

\* one iteration of the batch loop that returns: call, overlay write,
\* gradcam write if provided, progress update
StepEvents(name, i, total, gradcam_pil) ==
    <<Ev("call", name, i, total), Ev("overlay", name, i, total)>>
    \o (IF gradcam_pil # None THEN <<Ev("gradcam", name, i, total)>> ELSE <<>>)
    \o <<Ev("progress", name, i, total)>>

\* ---------------------------------------------------------------- history
FirstInBatch(ufs, n) ==
    LET hits == {i \in 1..Len(ufs) : ufs[i].name = n}
    IN  ufs[MinOf(hits)].bytes

RecordFirst(fb, ufs) ==
    [n \in (DOMAIN fb) \cup {ufs[i].name : i \in 1..Len(ufs)} |->
        IF n \in DOMAIN fb THEN fb[n] ELSE FirstInBatch(ufs, n)]

FirstBytesOf(fs) ==
    [n \in {fs[i].name : i \in 1..Len(fs)} |->
        fs[MinOf({i \in 1..Len(fs) : fs[i].name = n})].bytes]

\* ---------------------------------------------------------------- actions
InitSession ==
    /\ files = <<>>
    /\ outputs_overlay = EmptyDict
    /\ outputs_gradcam = EmptyDict
    /\ select_all = TRUE
    /\ selected_names = <<>>
    /\ explicit = FALSE
    /\ interaction = "init"
    /\ pc = "idle"
    /\ idx = 0
    /\ events = <<>>
    /\ status = "none"
    /\ error = NoError
    /\ shadowed = FALSE
    /\ first_bytes = EmptyDict
    /\ latest = EmptyDict

\* the empty session with the pipeline of inference.py
Init ==
    /\ InitSession
    /\ pipe = "stub"

\* the parts of an execution that do not press the Run button
NoRun ==
    /\ pc' = "idle"
    /\ idx' = 0
    /\ events' = <<>>
    /\ status' = "none"
    /\ error' = NoError

\* variant: an upload that adds a file also resets the cached outputs
UploadClearing(ufs) ==
    /\ pc = "idle"
    /\ Len(Merge(files, ufs)) <= MaxFiles
    /\ files' = Merge(files, ufs)
    /\ first_bytes' = RecordFirst(first_bytes, ufs)
    /\ shadowed' = \E i \in 1..Len(ufs) :
                        /\ ufs[i].name \in DOMAIN first_bytes
                        /\ ufs[i].bytes # first_bytes[ufs[i].name]
    /\ IF AllNames(files') = AllNames(files)
       THEN UNCHANGED <<selected_names, explicit, outputs_overlay, outputs_gradcam>>
       ELSE /\ selected_names' = SelectionBlock(files', select_all)
            /\ explicit' = FALSE
            /\ outputs_overlay' = EmptyDict
            /\ outputs_gradcam' = EmptyDict
    /\ interaction' = "upload"
    /\ NoRun
    /\ UNCHANGED <<select_all, pipe, latest>>

\* the uploader holds the batch ufs; the script merges it and renders
Upload(ufs) ==
    /\ pc = "idle"
    /\ Len(Merge(files, ufs)) <= MaxFiles
    /\ files' = Merge(files, ufs)
    /\ first_bytes' = RecordFirst(first_bytes, ufs)
    /\ shadowed' = \E i \in 1..Len(ufs) :
                        /\ ufs[i].name \in DOMAIN first_bytes
                        /\ ufs[i].bytes # first_bytes[ufs[i].name]
    /\ IF AllNames(files') = AllNames(files)
       THEN UNCHANGED <<selected_names, explicit>>
       ELSE /\ selected_names' = SelectionBlock(files', select_all)
            /\ explicit' = FALSE
    /\ interaction' = "upload"
    /\ NoRun
    /\ UNCHANGED <<outputs_overlay, outputs_gradcam, select_all, pipe, latest>>

\* the user flips the "Select all" checkbox
ToggleSelectAll ==
    /\ pc = "idle"
    /\ files # <<>>
    /\ select_all' = ~select_all
    /\ IF Default(AllNames(files), select_all') = Default(AllNames(files), select_all)
       THEN UNCHANGED <<selected_names, explicit>>
       ELSE /\ selected_names' = SelectionBlock(files, select_all')
            /\ explicit' = FALSE
    /\ interaction' = "toggle"
    /\ shadowed' = FALSE
    /\ NoRun
    /\ UNCHANGED <<files, outputs_overlay, outputs_gradcam, pipe, first_bytes, latest>>

\* the user changes the multiselect to the options at the positions choice
Pick(choice) ==
    /\ pc = "idle"
    /\ files # <<>>
    /\ selected_names' = Multiselect(AllNames(files), choice)
    /\ explicit' = TRUE
    /\ interaction' = "pick"
    /\ shadowed' = FALSE
    /\ NoRun
    /\ UNCHANGED <<files, outputs_overlay, outputs_gradcam, select_all, pipe,
                   first_bytes, latest>>

\* variant: the empty selection is not tested before the loop
RunClickNoGuard ==
    /\ pc = "idle"
    /\ interaction' = "run"
    /\ shadowed' = FALSE
    /\ error' = NoError
    /\ status' = "running"
    /\ events' = <<Ev("bar", "", 0, Len(selected_names))>>
    /\ pc' = "loop"
    /\ idx' = 1
    /\ UNCHANGED <<files, outputs_overlay, outputs_gradcam, select_all,
                   selected_names, explicit, pipe, first_bytes, latest>>

\* the user presses "Run model"
RunClick ==
    /\ pc = "idle"
    /\ interaction' = "run"
    /\ shadowed' = FALSE
    /\ error' = NoError
    /\ IF selected_names = <<>>
       THEN /\ status' = "warning"
            /\ events' = <<>>
            /\ pc' = "idle"
            /\ idx' = 0
       ELSE /\ status' = "running"
            /\ events' = <<Ev("bar", "", 0, Len(selected_names))>>
            /\ pc' = "loop"
            /\ idx' = 1
    /\ UNCHANGED <<files, outputs_overlay, outputs_gradcam, select_all,
                   selected_names, explicit, pipe, first_bytes, latest>>

\* variant: the selection is walked from its end
LoopNameReversed(i) == selected_names[Len(selected_names) + 1 - i]

\* name of the i-th iteration of enumerate(selected_names, start=1)
LoopName(i) == selected_names[i]

\* variant: the exception is caught and the loop goes on with the next name
RaiseAndContinue(name, total) ==
    /\ events' = Append(events, Ev("call", name, idx, total))
    /\ status' = "exception"
    /\ error' = AdapterError
    /\ idx' = idx + 1
    /\ UNCHANGED <<outputs_overlay, outputs_gradcam, latest, pc>>

\* pipe.run raises: nothing catches the exception, the execution stops
Raise(name, total) ==
    /\ events' = Append(events, Ev("call", name, idx, total))
    /\ status' = "exception"
    /\ error' = AdapterError
    /\ pc' = "idle"
    /\ UNCHANGED <<outputs_overlay, outputs_gradcam, latest, idx>>

\* one iteration of: for idx, name in enumerate(selected_names, start=1)
RunStep ==
    /\ pc = "loop"
    /\ idx <= Len(selected_names)
    /\ LET name == LoopName(idx)
           total == Len(selected_names)
           img == GetOriginalPil(name)
       IN  \E out \in PipeRun(pipe, img) :
             IF out.raised
             THEN Raise(name, total)
             ELSE LET ret == out.ret
                      overlay_pil == ret[1]
                      gradcam_pil == IF Len(ret) = 3 THEN ret[3] ELSE None
                  IN  /\ outputs_overlay' = DictPut(outputs_overlay, name, SavePng(overlay_pil))
                      /\ outputs_gradcam' =
                            IF gradcam_pil # None
                            THEN DictPut(outputs_gradcam, name, SavePng(gradcam_pil))
                            ELSE outputs_gradcam
                      /\ latest' = DictPut(latest, name,
                            [primary |-> SavePng(overlay_pil),
                             secondary |-> IF gradcam_pil # None
                                           THEN SavePng(gradcam_pil) ELSE None])
                      /\ events' = events \o StepEvents(name, idx, total, gradcam_pil)
                      /\ idx' = idx + 1
                      /\ UNCHANGED <<status, error, pc>>
    /\ UNCHANGED <<files, select_all, selected_names, explicit, interaction, pipe,
                   shadowed, first_bytes>>

\* progress.empty(); st.success(...)
RunFinish ==
    /\ pc = "loop"
    /\ idx > Len(selected_names)
    /\ events' = Append(events, Ev("empty", "", 0, Len(selected_names)))
    /\ status' = "success"
    /\ pc' = "idle"
    /\ UNCHANGED <<files, outputs_overlay, outputs_gradcam, select_all, selected_names,
                   explicit, interaction, idx, error, pipe, shadowed, first_bytes, latest>>

\* the uploader holds one file or two files
Batches == {<<f>> : f \in UploadedFile} \cup {<<f, g>> : f, g \in UploadedFile}

UploadSome == \E ufs \in Batches : Upload(ufs)

PickSome == \E c \in PickChoices(Len(files)) : Pick(c)

Next ==
    \/ UploadSome
    \/ ToggleSelectAll
    \/ PickSome
    \/ RunClick
    \/ RunStep
    \/ RunFinish

Spec == Init /\ [][Next]_vars

\* ------------------------------------------------- batch specification
\* Three files a, b, c have been uploaded in one batch and a replacement
\* pipeline is loaded; the user picks selections and runs batches.
BatchNames == <<"a", "b", "c">>

InitBatch ==
    /\ files = [i \in DOMAIN BatchNames |->
                    [name |-> BatchNames[i], bytes |-> [kind |-> "file", data |-> 1]]]
    /\ outputs_overlay = EmptyDict
    /\ outputs_gradcam = EmptyDict
    /\ select_all = TRUE
    /\ selected_names = SelectionBlock(files, select_all)
    /\ explicit = FALSE
    /\ interaction = "upload"
    /\ pc = "idle"
    /\ idx = 0
    /\ events = <<>>
    /\ status = "none"
    /\ error = NoError
    /\ pipe = "external"
    /\ shadowed = FALSE
    /\ first_bytes = FirstBytesOf(files)
    /\ latest = EmptyDict

NextBatch ==
    \/ PickSome
    \/ RunClick
    \/ RunStep
    \/ RunFinish

SpecBatch == InitBatch /\ [][NextBatch]_vars

\* ------------------------------------------------- replacement pipeline
\* A replacement pipeline is loaded into an empty session; the user uploads
\* files and runs batches over the default selection.
InitExt ==
    /\ InitSession
    /\ pipe = "external"

NextExt ==
    \/ UploadSome
    \/ RunClick
    \/ RunStep
    \/ RunFinish

SpecExt == InitExt /\ [][NextExt]_vars

\* ------------------------------------------------- selection specification
\* Up to MaxKnown files have been uploaded, in the order of NameOrder; the
\* user toggles "Select all" and picks selections.

InitDefault ==
    /\ files \in {[i \in 1..n |-> [name |-> NameOrder[i], bytes |-> [kind |-> "file", data |-> 1]]] :
                      n \in 0..MaxKnown}
    /\ outputs_overlay = EmptyDict
    /\ outputs_gradcam = EmptyDict
    /\ select_all = TRUE
    /\ selected_names = SelectionBlock(files, select_all)
    /\ explicit = FALSE
    /\ interaction = "upload"
    /\ pc = "idle"
    /\ idx = 0
    /\ events = <<>>
    /\ status = "none"
    /\ error = NoError
    /\ pipe = "stub"
    /\ shadowed = FALSE
    /\ first_bytes = FirstBytesOf(files)
    /\ latest = EmptyDict

NextDefault ==
    \/ ToggleSelectAll
    \/ PickSome

SpecDefault == InitDefault /\ [][NextDefault]_vars

\* ---------------------------------------------------------------- claims
KnownNames == {files[i].name : i \in 1..Len(files)}

\* C1: for every name that was ever uploaded, get_original returns the image
\* decoded from the bytes of the first upload of that name, whatever was
\* uploaded under that name later and whatever was run
C1_FirstWriteWins ==
    \A n \in DOMAIN first_bytes : GetOriginalPil(n) = OpenRGB(first_bytes[n])

\* a name stored twice by one batch with different bytes, outputs cached by a
\* run, and then a later upload that repeats a stored name with other bytes
C1_Witness ==
    /\ interaction = "upload"
    /\ shadowed
    /\ DOMAIN outputs_overlay # {}
    /\ \E i, j \in 1..Len(files) :
          i < j /\ files[i].name = files[j].name /\ files[i].bytes # files[j].bytes

\* C2: get_artifact(n) is none before any run processed n, and afterwards it
\* is the artifact (primary and secondary) returned for n by the most recent call
C2_ArtifactIsLatest ==
    \A n \in KnownNames \cup Names :
        IF n \notin DOMAIN latest
        THEN GetOverlayPil(n) = None /\ GetGradcamPil(n) = None
        ELSE /\ GetOverlayPil(n) = OpenRGB(latest[n].primary)
             /\ GetGradcamPil(n) =
                   (IF latest[n].secondary = None THEN None
                    ELSE OpenRGB(latest[n].secondary))

\* C3 as stated: a failing adapter call ends the run with a RunError that
\* names the failed name and its 1-based index
C3_RunErrorNamesFailed ==
    status = "exception" =>
        /\ error.type = "RunError"
        /\ error.name = selected_names[idx]
        /\ error.index = idx

\* positions of the selection for which the latest execution logged an event
EventAt(kind, i) == \E p \in 1..Len(events) : events[p].ev = kind /\ events[p].i = i

\* C3 amended: a failing adapter call ends the run with the adapter's own
\* exception, which carries neither name nor index; the artifacts of the
\* earlier names are written and present, nothing is written for the failed
\* name or a later one, and the adapter is not called for a later name
C3_AbortKeepsEarlier ==
    status = "exception" =>
        /\ error.type = "adapter" /\ error.name = "" /\ error.index = 0
        /\ pc = "idle"
        /\ EventAt("call", idx)
        /\ \A i \in 1..Len(selected_names) :
              /\ i < idx =>
                    /\ EventAt("overlay", i)
                    /\ selected_names[i] \in DOMAIN outputs_overlay
                    /\ outputs_overlay[selected_names[i]] = latest[selected_names[i]].primary
              /\ i >= idx => ~EventAt("overlay", i) /\ ~EventAt("gradcam", i)
              /\ i > idx => ~EventAt("call", i)
        /\ \A n \in KnownNames :
              n \notin DOMAIN latest =>
                  n \notin DOMAIN outputs_overlay /\ n \notin DOMAIN outputs_gradcam

\* the batch [a, b, c] failed on b: a has its artifact, b and c have none
C3_Witness ==
    /\ status = "exception"
    /\ selected_names = <<"a", "b", "c">>
    /\ idx = 2
    /\ "a" \in DOMAIN outputs_overlay
    /\ "b" \notin DOMAIN outputs_overlay
    /\ "c" \notin DOMAIN outputs_overlay

\* C4: after a run processed n, overlay and GradCAM of n both reflect that
\* run only: no GradCAM of an earlier run stays when the latest call returned none
C4_NoStaleSecondary ==
    \A n \in DOMAIN latest :
        latest[n].secondary = None => n \notin DOMAIN outputs_gradcam

\* C5: no two records of the session's file list have the same name
C5_UniqueNames ==
    \A i, j \in 1..Len(files) : i # j => files[i].name # files[j].name

C7_DefaultPolicy ==
    ~explicit =>
        LET n == Len(files)
            k == IF select_all THEN n ELSE IF n < 4 THEN n ELSE 4
        IN  /\ Len(selected_names) = k
            /\ \A i \in 1..k : selected_names[i] = files[i].name

\* ten known names, "Select all" switched off: the first four are selected
C7_Witness ==
    /\ ~explicit
    /\ ~select_all
    /\ interaction = "toggle"
    /\ Len(files) = 10
    /\ selected_names = <<files[1].name, files[2].name, files[3].name, files[4].name>>

\* the events of `done` completed iterations, GradCAM writes left out
RECURSIVE ExpectedLog(_, _)
ExpectedLog(done, total) ==
    IF done = 0 THEN <<Ev("bar", "", 0, total)>>
    ELSE ExpectedLog(done - 1, total)
         \o <<Ev("call", selected_names[done], done, total),
              Ev("overlay", selected_names[done], done, total),
              Ev("progress", selected_names[done], done, total)>>

NotGradcam(e) == e.ev # "gradcam"

\* C8: the batch is strictly sequential: one adapter call per selected name in
\* selection order, the artifact of a name is in the store before the next
\* call, the progress updates are (1,T), ..., (T,T) in order, each after the
\* write of its name
C8_Sequential ==
    status \in {"running", "success"} =>
        LET total == Len(selected_names)
            done == idx - 1
        IN  /\ done \in 0..total
            /\ status = "success" => done = total
            /\ SelectSeq(events, NotGradcam) =
                  ExpectedLog(done, total)
                  \o (IF status = "success" THEN <<Ev("empty", "", 0, total)>> ELSE <<>>)
            /\ \A p \in 1..Len(events) :
                  events[p].ev = "gradcam" =>
                      /\ p > 1 /\ events[p - 1].ev = "overlay" /\ events[p - 1].i = events[p].i
                      /\ p < Len(events) /\ events[p + 1].ev = "progress"
                      /\ events[p].name = selected_names[events[p].i]
                      /\ events[p].name \in DOMAIN outputs_gradcam
            /\ \A i \in 1..done : selected_names[i] \in DOMAIN outputs_overlay

\* a batch of three names ran to its end and one call returned a GradCAM
C8_Witness ==
    /\ status = "success"
    /\ Len(selected_names) = 3
    /\ selected_names[1] # selected_names[3]
    /\ \E p \in 1..Len(events) : events[p].ev = "gradcam"

\* C9: pressing Run with an empty selection gives the guidance message: no
\* adapter call, no progress update, no error, files and cached outputs unchanged
C9_EmptyRunIsGuidance ==
    [][(pc = "idle" /\ interaction' = "run" /\ selected_names = <<>>) =>
          /\ status' = "warning"
          /\ error' = NoError
          /\ events' = <<>>
          /\ pc' = "idle"
          /\ UNCHANGED <<files, outputs_overlay, outputs_gradcam>>]_vars

\* Run was pressed with an empty selection while files and outputs exist
C9_Witness ==
    /\ status = "warning"
    /\ interaction = "run"
    /\ selected_names = <<>>
    /\ files # <<>>
    /\ DOMAIN outputs_overlay # {}

\* C10: every name with a cached output is the name of an uploaded file, every
\* name with a GradCAM has an overlay, and an upload changes no cached output
C10_ArtifactsOfUploads ==
    /\ [](/\ DOMAIN outputs_overlay \subseteq KnownNames
          /\ DOMAIN outputs_gradcam \subseteq DOMAIN outputs_overlay)
    /\ [][interaction' = "upload" => UNCHANGED <<outputs_overlay, outputs_gradcam>>]_vars

\* a file was uploaded after a run had cached an overlay and a GradCAM
C10_Witness ==
    /\ interaction = "upload"
    /\ DOMAIN outputs_gradcam # {}
    /\ KnownNames \ DOMAIN outputs_overlay # {}

====
